---- MODULE Spec2Model ----
(***************************************************************************)
(* The Music View's "Edit in Place" dialog                                 *)
(* (frescobaldi_app/musicview/editinplace.py).                             *)
(*                                                                         *)
(* One Dialog, two host documents, the dialog's scratch document and View, *)
(* the closed-signal connections, and the host documents' undo stacks.     *)
(* Text is a sequence of characters; a host document is a sequence of      *)
(* lines (text blocks); a QTextCursor is a block number with an anchor and *)
(* a position inside that block.                                           *)
(***************************************************************************)
EXTENDS Integers, Sequences, FiniteSets, TLC

VARIABLES
    host,          \* [Docs -> [lines, undo, open]]: the host documents
    state,         \* the Dialog: Closed, Editing, Accepted, Rejected, Destroyed
    shown,         \* the Dialog is visible
    autoDelete,    \* finished is connected to deleteLater (entry function)
    _document,     \* Dialog._document: the tracked host document, or None
    _range,        \* Dialog._range: the tracked cursor in the host document
    scratch,       \* the text of Dialog.document (the scratch document)
    caret,         \* the position of the View's text cursor
    message,       \* the dialog's status message
    conn,          \* [Docs -> Nat]: connections of d.closed to Dialog.reject
    geom,          \* the dialog's geometry, a QRect
    err,           \* the exception the last handler raised, "" if none
    argCursor,     \* the cursor last passed to edit(), as passed
    callerCursor,  \* the caller's cursor object after that edit() returned
    atEdit,        \* scratch text and host lines when edit() returned
    nKeys,         \* key events delivered so far
    nHostEdits,    \* host document changes made by the user so far
    edited,        \* the host documents edit() was called for so far
    lastOp         \* the handler that ran last, with its arguments

vars == <<host, state, shown, autoDelete, _document, _range, scratch, caret,
          message, conn, geom, err, argCursor, callerCursor, atEdit, nKeys,
          nHostEdits, edited, lastOp>>

----------------------------------------------------------------------------
(* Bounds of the model *)

MaxLen == 3
MaxKeys == 1
MaxHostEdits == 1
MaxIndent == 1
MaxSize == 4

(* Program constants *)

PopupOffset == 60

----------------------------------------------------------------------------
(* Characters and text *)

SP == " "
NBSP == "nbsp"
LSEP == "lsep"
NL == "nl"
None == "None"

Chars == {SP, "a", NBSP}

Max(a, b) == IF a >= b THEN a ELSE b
Min(a, b) == IF a <= b THEN a ELSE b

RECURSIVE TextsOfLen(_)
TextsOfLen(n) ==
    IF n = 0 THEN {<<>>}
    ELSE {Append(t, c) : t \in TextsOfLen(n - 1), c \in Chars}

Texts == UNION {TextsOfLen(n) : n \in 0..MaxLen}

IsSpace(c) == c \in {SP, NBSP, LSEP, NL}

\* len(text) - len(text.lstrip())
RECURSIVE IndentLen(_)
IndentLen(text) ==
    IF text = <<>> \/ ~IsSpace(Head(text)) THEN 0
    ELSE 1 + IndentLen(Tail(text))

lstrip(text) == SubSeq(text, IndentLen(text) + 1, Len(text))

\* the plain text of a document or fragment: a no-break space becomes a
\* space, a line separator becomes a newline
toPlainText(text) ==
    [i \in 1..Len(text) |->
        CASE text[i] = NBSP -> SP
          [] text[i] = LSEP -> NL
          [] OTHER -> text[i]]

\* the blocks a plain text makes: the text split at its newlines
RECURSIVE SplitLines(_)
SplitLines(text) ==
    IF \A i \in 1..Len(text) : text[i] # NL THEN <<text>>
    ELSE LET i == CHOOSE j \in 1..Len(text) :
                      text[j] = NL /\ \A m \in 1..(j - 1) : text[m] # NL
         IN <<SubSeq(text, 1, i - 1)>> \o SplitLines(SubSeq(text, i + 1, Len(text)))

Spaces(n) == [i \in 1..n |-> SP]

----------------------------------------------------------------------------
(* Host documents and cursors *)

Docs == {"d1", "d2"}

NewLine == <<"a">>

\* a QTextCursor of a host document: blockNumber, and anchor and position
\* as offsets inside that block
NoCursor == [doc |-> None, block |-> 0, anchor |-> 0, pos |-> 0]

Cursors(d, lines) ==
    {[doc |-> d, block |-> b, anchor |-> a, pos |-> p] :
        b \in 0..(Len(lines) - 1), a \in 0..MaxLen, p \in 0..MaxLen}

CursorsOf(d, lines) ==
    {c \in Cursors(d, lines) :
        /\ c.pos <= Len(lines[c.block + 1])
        /\ c.anchor \in {c.pos, 0}}

selectionStart(c) == Min(c.anchor, c.pos)
selectionEnd(c) == Max(c.anchor, c.pos)

\* cursor.selection().toPlainText()
selectionToPlainText(c, line) ==
    toPlainText(SubSeq(line, selectionStart(c) + 1, selectionEnd(c)))

\* cursortools.strip_indent(c): moves the cursor in its block to the first
\* non-space character
strip_indent(c, line) ==
    [c EXCEPT !.anchor = IndentLen(line), !.pos = IndentLen(line)]

\* c.movePosition(QTextCursor.EndOfBlock, QTextCursor.KeepAnchor)
movePositionEndOfBlock(c, line) == [c EXCEPT !.pos = Len(line)]

documentName(d) == d

\* tooltip.get_definition(cursor): the name of the definition the line
\* belongs to, "" when none is found; a definition starts in column 0
get_definition(line) ==
    IF line # <<>> /\ Head(line) = "a" THEN "a" ELSE ""

----------------------------------------------------------------------------
(* Dialog.updateMessage *)

NoDocumentMessage ==
    [kind |-> "<no document set>", linenum |-> 0, document |-> "", variable |-> ""]

updateMessage_ZeroBased(doc, range, lines) ==
    IF doc # None
    THEN [kind |-> "Editing line", linenum |-> range.block,
          document |-> documentName(doc),
          variable |-> IF get_definition(lines[range.block + 1]) # ""
                       THEN get_definition(lines[range.block + 1])
                       ELSE "<unknown>"]
    ELSE NoDocumentMessage

updateMessage(doc, range, lines) ==
    IF doc # None
    THEN [kind |-> "Editing line", linenum |-> range.block + 1,
          document |-> documentName(doc),
          variable |-> IF get_definition(lines[range.block + 1]) # ""
                       THEN get_definition(lines[range.block + 1])
                       ELSE "<unknown>"]
    ELSE NoDocumentMessage

----------------------------------------------------------------------------
(* Dialog.edit *)

\* the closed-signal connections after edit(): the previous document's is
\* removed, the new document's is added
editConnections_NoDisconnect(c, old, new) ==
    [c EXCEPT ![new] = @ + 1]

editConnections_NoConnect(c, old, new) ==
    IF old # None THEN [c EXCEPT ![old] = 0] ELSE c

editConnections(c, old, new) ==
    LET disconnected == IF old # None THEN [c EXCEPT ![old] = 0] ELSE c
    IN [disconnected EXCEPT ![new] = @ + 1]

\* the cursor objects of edit(): the caller's cursor, and the copy c that is
\* also self._range
editCursors_RangeNotWorkCopy(cursor, line) ==
    LET c1 == strip_indent(cursor, line)
        c2 == movePositionEndOfBlock(c1, line)
    IN [caller |-> cursor, range |-> cursor, work |-> c2,
        cursorpos |-> cursor.pos, indentpos |-> c1.pos]

editCursors_NoStrip(cursor, line) ==
    LET c2 == movePositionEndOfBlock(cursor, line)
    IN [caller |-> cursor, range |-> c2, work |-> c2,
        cursorpos |-> cursor.pos, indentpos |-> cursor.pos]

editCursors(cursor, line) ==
    LET c0 == cursor
        cursorpos == c0.pos
        c1 == strip_indent(c0, line)
        indentpos == c1.pos
        c2 == movePositionEndOfBlock(c1, line)
    IN [caller |-> cursor, range |-> c2, work |-> c2,
        cursorpos |-> cursorpos, indentpos |-> indentpos]

\* the Dialog's fields after edit(cursor)
editResult(cursor, connections, old) ==
    LET lines == host[cursor.doc].lines
        line == lines[cursor.block + 1]
        cs == editCursors(cursor, line)
    IN [document |-> cursor.doc,
        conn |-> editConnections(connections, old, cursor.doc),
        range |-> cs.range,
        caller |-> cs.caller,
        scratch |-> selectionToPlainText(cs.work, line),
        caret |-> Max(0, cs.cursorpos - cs.indentpos),
        message |-> updateMessage(cursor.doc, cs.range, lines)]

----------------------------------------------------------------------------
(* Dialog.popup *)

\* a QRect holds its left, top, right and bottom coordinates
QRect(x, y, w, h) == [x1 |-> x, y1 |-> y, x2 |-> x + w - 1, y2 |-> y + h - 1]

width(r) == r.x2 - r.x1 + 1
height(r) == r.y2 - r.y1 + 1

moveCenter(r, p) ==
    LET w == r.x2 - r.x1
        h == r.y2 - r.y1
        x == p.x - (w \div 2)
        y == p.y - (h \div 2)
    IN [x1 |-> x, y1 |-> y, x2 |-> x + w, y2 |-> y + h]

moveTop(r, y) == [r EXCEPT !.y2 = @ + (y - r.y1), !.y1 = y]

moveBottom(r, y) == [r EXCEPT !.y1 = @ + (y - r.y2), !.y2 = y]

\* position is <<>> for None and <<p>> for the QPoint p
NoPosition == <<>>

popupGeometry_AlwaysBelow(g, p) ==
    moveTop(moveCenter(g, p), p.y + PopupOffset)

popupGeometry(g, p) ==
    LET centred == moveCenter(g, p)
    IN IF p.y <= height(centred) + PopupOffset
       THEN moveTop(centred, p.y + PopupOffset)
       ELSE moveBottom(centred, p.y - PopupOffset)

\* popup(position): the geometry, whether the dialog is shown, and the
\* exception raised; moveCenter(None) raises a TypeError
popupResult(g, position) ==
    IF position = NoPosition
    THEN [geom |-> g, shown |-> FALSE, err |-> "TypeError"]
    ELSE [geom |-> popupGeometry(g, position[1]), shown |-> TRUE, err |-> ""]

----------------------------------------------------------------------------
(* View.event *)

Keys == {"a", "Return", "InsertLineSeparator", "Backspace"}

insertAt(text, at, c) ==
    SubSeq(text, 1, at) \o <<c>> \o SubSeq(text, at + 1, Len(text))

\* QPlainTextEdit.event: a character is typed at the caret, Return starts
\* a new block, the line separator key types a line separator
QPlainTextEdit_event(key, text, at) ==
    CASE key = "Return" ->
            [text |-> insertAt(text, at, NL), caret |-> at + 1]
      [] key = "InsertLineSeparator" ->
            [text |-> insertAt(text, at, LSEP), caret |-> at + 1]
      [] key = "Backspace" ->
            IF at = 0 THEN [text |-> text, caret |-> at]
            ELSE [text |-> SubSeq(text, 1, at - 1) \o SubSeq(text, at + 1, Len(text)),
                  caret |-> at - 1]
      [] OTHER ->
            [text |-> insertAt(text, at, key), caret |-> at + 1]

event_NotReimplemented(key, text, at) == QPlainTextEdit_event(key, text, at)

event(key, text, at) ==
    IF key = "InsertLineSeparator"
    THEN [text |-> text, caret |-> at]
    ELSE QPlainTextEdit_event(key, text, at)

----------------------------------------------------------------------------
(* Dialog.save *)

\* cursordiff.insert_text(cursor, text): the selection start..end of the
\* block is replaced by text; nothing changes where the plain text of the
\* selection already is text
insert_text(lines, block, start, end, text) ==
    LET line == lines[block + 1]
        segs == SplitLines(text)
        n == Len(segs)
        prefix == SubSeq(line, 1, start)
        suffix == SubSeq(line, end + 1, Len(line))
        new == IF n = 1 THEN <<prefix \o segs[1] \o suffix>>
               ELSE <<prefix \o segs[1]>> \o SubSeq(segs, 2, n - 1)
                    \o <<segs[n] \o suffix>>
    IN IF toPlainText(SubSeq(line, start + 1, end)) = text THEN lines
       ELSE SubSeq(lines, 1, block) \o new \o SubSeq(lines, block + 2, Len(lines))

\* indent.re_indent(cursor): the blocks first..last get the indent w
re_indent(lines, first, last, w) ==
    [i \in 1..Len(lines) |->
        IF first + 1 <= i /\ i <= last + 1
        THEN Spaces(w) \o lstrip(lines[i])
        ELSE lines[i]]

\* the undo stack (newest first) after the two mutations of save(), which
\* took the lines from before to mid and from mid to after
saveUndo_NoCompress(undo, before, mid, after) ==
    LET u1 == IF mid # before THEN <<before>> \o undo ELSE undo
    IN IF after # mid THEN <<mid>> \o u1 ELSE u1

\* with cursortools.compress_undo(cursor): one undo group for both
saveUndo(undo, before, mid, after) ==
    IF mid # before \/ after # mid THEN <<before>> \o undo ELSE undo

\* the host document after save(), re-indenting with indent w
saveResult(doc, range, view, w) ==
    LET cursor == range
        start == selectionStart(cursor)
        text == toPlainText(view)
        mid == insert_text(doc.lines, cursor.block, start, selectionEnd(cursor), text)
        last == cursor.block + Len(SplitLines(text)) - 1
        after == re_indent(mid, cursor.block, last, w)
    IN [doc EXCEPT !.lines = after,
                   !.undo = saveUndo(doc.undo, doc.lines, mid, after)]

\* QTextDocument.undo: the newest undo group is reverted
undo(doc) ==
    IF doc.undo = <<>> THEN doc
    ELSE [doc EXCEPT !.lines = Head(doc.undo), !.undo = Tail(doc.undo)]

\* what the accepted signal does: it is connected to save
onAccepted(doc, range, view, w) == saveResult(doc, range, view, w)

onRejected_Saves(doc, range, view, w) == saveResult(doc, range, view, w)

\* what the rejected signal does: nothing is connected to it
onRejected(doc, range, view, w) == doc

----------------------------------------------------------------------------
(* The state machine *)

Positions == {NoPosition, <<[x |-> 5, y |-> 10]>>}

DefaultGeometry == QRect(0, 0, 4, 3)

NoConnections == [d \in Docs |-> 0]

Op(name, arg, position) ==
    [name |-> name, from |-> state, arg |-> arg, pos |-> position]

\* Dialog.__init__: no document, the message set by translateUI
Constructed ==
    /\ state = "Closed"
    /\ shown = FALSE
    /\ autoDelete = FALSE
    /\ _document = None
    /\ _range = NoCursor
    /\ scratch = <<>>
    /\ caret = 0
    /\ message = updateMessage(None, NoCursor, <<>>)
    /\ conn = NoConnections
    /\ err = ""
    /\ argCursor = NoCursor
    /\ callerCursor = NoCursor
    /\ atEdit = [scratch |-> <<>>, lines |-> <<>>]
    /\ nKeys = 0
    /\ nHostEdits = 0
    /\ edited = {}
    /\ lastOp = [name |-> "init", from |-> "Closed", arg |-> "", pos |-> NoPosition]

\* two open host documents, d1 holding the one line L
Hosts(L) ==
    [d \in Docs |->
        [lines |-> IF d = "d1" THEN <<L>> ELSE <<NewLine>>,
         undo |-> <<>>, open |-> TRUE]]

Init ==
    /\ host = Hosts(<<SP, "a">>)
    /\ geom = DefaultGeometry
    /\ Constructed

\* the same, for every line L of d1
InitText ==
    /\ \E L \in Texts : host = Hosts(L)
    /\ geom = DefaultGeometry
    /\ Constructed

\* dlg.edit(cursor)
Edit(cursor) ==
    /\ state = "Editing"
    /\ host[cursor.doc].open
    /\ LET r == editResult(cursor, conn, _document)
       IN /\ _document' = r.document
          /\ conn' = r.conn
          /\ _range' = r.range
          /\ scratch' = r.scratch
          /\ caret' = r.caret
          /\ message' = r.message
          /\ callerCursor' = r.caller
          /\ atEdit' = [scratch |-> r.scratch, lines |-> host[cursor.doc].lines]
    /\ state' = "Editing"
    /\ err' = ""
    /\ argCursor' = cursor
    /\ edited' = edited \cup {cursor.doc}
    /\ lastOp' = Op("edit", cursor.doc, NoPosition)
    /\ UNCHANGED <<host, shown, autoDelete, geom, nKeys, nHostEdits>>

\* dlg.popup(position)
Popup(position) ==
    /\ state = "Editing"
    /\ LET r == popupResult(geom, position)
       IN /\ geom' = r.geom
          /\ shown' = (shown \/ r.shown)
          /\ err' = r.err
    /\ lastOp' = Op("popup", "", position)
    /\ UNCHANGED <<host, state, autoDelete, _document, _range, scratch, caret,
                   message, conn, argCursor, callerCursor, atEdit, nKeys,
                   nHostEdits, edited>>

\* the entry function edit(parent, cursor, position): a new Dialog,
\* finished connected to deleteLater, dlg.edit(cursor), dlg.popup(position)
Entry(cursor, position) ==
    /\ state = "Closed"
    /\ host[cursor.doc].open
    /\ LET r == editResult(cursor, NoConnections, None)
           pr == popupResult(geom, position)
       IN /\ _document' = r.document
          /\ conn' = r.conn
          /\ _range' = r.range
          /\ scratch' = r.scratch
          /\ caret' = r.caret
          /\ message' = r.message
          /\ callerCursor' = r.caller
          /\ atEdit' = [scratch |-> r.scratch, lines |-> host[cursor.doc].lines]
          /\ geom' = pr.geom
          /\ shown' = pr.shown
          /\ err' = pr.err
    /\ state' = "Editing"
    /\ autoDelete' = TRUE
    /\ argCursor' = cursor
    /\ edited' = edited \cup {cursor.doc}
    /\ lastOp' = Op("entry", cursor.doc, position)
    /\ UNCHANGED <<host, nKeys, nHostEdits>>

\* a key event delivered to the View
Key(key) ==
    /\ shown
    /\ state = "Editing"
    /\ nKeys < MaxKeys
    /\ LET r == event(key, scratch, caret)
       IN /\ scratch' = r.text
          /\ caret' = r.caret
    /\ nKeys' = nKeys + 1
    /\ lastOp' = Op("key", key, NoPosition)
    /\ UNCHANGED <<host, state, shown, autoDelete, _document, _range, message,
                   conn, geom, err, argCursor, callerCursor, atEdit, nHostEdits, edited>>

\* the user accepts the dialog (OK, Ctrl+Return): accepted is emitted, and
\* save() runs
Accept ==
    /\ shown
    /\ state = "Editing"
    /\ \E w \in 0..MaxIndent :
          host' = [host EXCEPT ![_document] =
                      onAccepted(host[_document], _range, scratch, w)]
    /\ err' = ""
    /\ state' = "Accepted"
    /\ shown' = FALSE
    /\ lastOp' = Op("accept", "", NoPosition)
    /\ UNCHANGED <<autoDelete, _document, _range, scratch, caret, message, conn,
                   geom, argCursor, callerCursor, atEdit, nKeys, nHostEdits, edited>>

\* the user rejects the dialog (Cancel, Escape)
Reject ==
    /\ shown
    /\ state = "Editing"
    /\ \E w \in 0..MaxIndent :
          host' = [host EXCEPT ![_document] =
                      onRejected(host[_document], _range, scratch, w)]
    /\ state' = "Rejected"
    /\ shown' = FALSE
    /\ err' = ""
    /\ lastOp' = Op("reject", "", NoPosition)
    /\ UNCHANGED <<autoDelete, _document, _range, scratch, caret, message, conn,
                   geom, argCursor, callerCursor, atEdit, nKeys, nHostEdits, edited>>

\* the host document d is closed: d.closed is emitted, and every slot
\* connected to it runs
CloseDoc(d) ==
    /\ host[d].open
    /\ LET closed == [host EXCEPT ![d].open = FALSE]
       IN IF conn[d] > 0
          THEN /\ state' = "Rejected"
               /\ shown' = FALSE
               /\ IF state = "Editing"
                  THEN \E w \in 0..MaxIndent :
                          host' = [closed EXCEPT ![_document] =
                                      onRejected(closed[_document], _range, scratch, w)]
                  ELSE host' = closed
          ELSE /\ host' = closed
               /\ UNCHANGED <<state, shown>>
    /\ err' = ""
    /\ lastOp' = Op("close", d, NoPosition)
    /\ UNCHANGED <<autoDelete, _document, _range, scratch, caret, message, conn,
                   geom, argCursor, callerCursor, atEdit, nKeys, nHostEdits, edited>>

\* deleteLater: the finished dialog is deleted, and with it its connections
Destroy ==
    /\ autoDelete
    /\ state \in {"Accepted", "Rejected"}
    /\ state' = "Destroyed"
    /\ conn' = NoConnections
    /\ _document' = None
    /\ _range' = NoCursor
    /\ scratch' = <<>>
    /\ caret' = 0
    /\ message' = NoDocumentMessage
    /\ geom' = DefaultGeometry
    /\ err' = ""
    /\ argCursor' = NoCursor
    /\ callerCursor' = NoCursor
    /\ atEdit' = [scratch |-> <<>>, lines |-> <<>>]
    /\ lastOp' = Op("destroy", "", NoPosition)
    /\ UNCHANGED <<host, shown, autoDelete, nKeys, nHostEdits, edited>>

\* the user inserts a line before block i of the host document d; the
\* cursors at or after it move down with their text
HostInsertLine(d, i) ==
    /\ host[d].open
    /\ nHostEdits < MaxHostEdits
    /\ i \in 0..(Len(host[d].lines) - 1)
    /\ host' = [host EXCEPT
                  ![d].lines = SubSeq(@, 1, i) \o <<NewLine>> \o SubSeq(@, i + 1, Len(@)),
                  ![d].undo = <<host[d].lines>> \o @]
    /\ _range' = IF _document = d /\ state # "Destroyed" /\ i <= _range.block
                 THEN [_range EXCEPT !.block = @ + 1]
                 ELSE _range
    /\ nHostEdits' = nHostEdits + 1
    /\ lastOp' = Op("hostInsertLine", d, NoPosition)
    /\ UNCHANGED <<state, shown, autoDelete, _document, scratch, caret, message,
                   conn, geom, err, argCursor, callerCursor, atEdit, nKeys, edited>>

\* the user undoes the last change of the host document d
HostUndo(d) ==
    /\ host[d].open
    /\ host[d].undo # <<>>
    /\ ~(state = "Editing" /\ _document = d)
    /\ host' = [host EXCEPT ![d] = undo(host[d])]
    /\ lastOp' = Op("hostUndo", d, NoPosition)
    /\ UNCHANGED <<state, shown, autoDelete, _document, _range, scratch, caret,
                   message, conn, geom, err, argCursor, callerCursor, atEdit,
                   nKeys, nHostEdits, edited>>

Next ==
    \/ \E d \in Docs : \E c \in CursorsOf(d, host[d].lines) : Edit(c)
    \/ \E p \in Positions \ {NoPosition} : Popup(p)
    \/ \E d \in Docs : \E c \in CursorsOf(d, host[d].lines) :
          \E p \in Positions : Entry(c, p)
    \/ \E k \in Keys : Key(k)
    \/ Accept
    \/ Reject
    \/ \E d \in Docs : CloseDoc(d)
    \/ Destroy
    \/ \E d \in Docs : \E i \in 0..MaxLen : HostInsertLine(d, i)
    \/ \E d \in Docs : HostUndo(d)

Spec == Init /\ [][Next]_vars

\* one edit session on any line: the dialog is opened, typed in, and
\* accepted or rejected
NextText ==
    \/ \E c \in CursorsOf("d1", host["d1"].lines) : \E p \in Positions : Entry(c, p)
    \/ \E k \in Keys : Key(k)
    \/ Accept
    \/ Reject

SpecText == InitText /\ [][NextText]_vars

\* the dialog with any saved size is opened and moved about
Geometries ==
    {QRect(x, y, w, h) : x \in {0, 3}, y \in {0, 3}, w \in 1..MaxSize, h \in 1..MaxSize}

Points ==
    {[x |-> a, y |-> b] :
        a \in {-3, 0, 8}, b \in {0} \cup (PopupOffset..(PopupOffset + MaxSize + 1))}

InitPopup ==
    /\ host = Hosts(<<SP, "a">>)
    /\ geom \in Geometries
    /\ Constructed

NextPopup ==
    \/ \E p \in Points : Entry([doc |-> "d2", block |-> 0, anchor |-> 0, pos |-> 0], <<p>>)
    \/ \E p \in Points : Popup(<<p>>)

SpecPopup == InitPopup /\ [][NextPopup]_vars

----------------------------------------------------------------------------
(* The claims *)

Tracked == _document # None
TrackedLines == host[_document].lines
ArgLine == host[argCursor.doc].lines[argCursor.block + 1]
AfterEdit == lastOp.name \in {"edit", "entry"}
Strip(lines) == [i \in 1..Len(lines) |-> lstrip(lines[i])]
OnlyTracked(d) == [e \in Docs |-> IF e = d THEN 1 ELSE 0]

\* C1: when the tracked host document is closed while the dialog is
\* Editing, the dialog becomes Rejected and no host document is changed by
\* that step; a closed document is never changed afterwards, and the dialog
\* is never Editing or Accepted on a closed document.
C1_CloseRejects ==
    [][/\ \A d \in Docs :
            (host[d].open /\ ~host'[d].open /\ state = "Editing" /\ _document = d)
            => /\ state' = "Rejected"
               /\ \A e \in Docs : host'[e].lines = host[e].lines
                                  /\ host'[e].undo = host[e].undo
       /\ \A d \in Docs : ~host[d].open => host'[d] = host[d]
       /\ (_document' # None /\ ~host'[_document'].open) => state' = "Rejected"
      ]_vars

C1_Witness ==
    /\ lastOp.name = "close"
    /\ lastOp.from = "Editing"
    /\ lastOp.arg = _document
    /\ state = "Rejected"
    /\ scratch # atEdit.scratch

\* C2 as stated: after edit(cursor) the scratch text is the line L without
\* its first k (indentation) characters, and the caret is at max(0, p - k).
C2_Original ==
    AfterEdit =>
        /\ scratch = SubSeq(ArgLine, IndentLen(ArgLine) + 1, Len(ArgLine))
        /\ caret = Max(0, argCursor.pos - IndentLen(ArgLine))

\* C2 amended: after edit(cursor) the scratch text is the plain text of L
\* without its first k characters (as long as that, each no-break space
\* replaced by a space), and the caret is at max(0, p - k).
C2_EditLoadsPlainText ==
    AfterEdit =>
        /\ scratch = toPlainText(SubSeq(ArgLine, IndentLen(ArgLine) + 1, Len(ArgLine)))
        /\ Len(scratch) = Len(ArgLine) - IndentLen(ArgLine)
        /\ caret = Max(0, argCursor.pos - IndentLen(ArgLine))
        /\ caret <= Len(scratch)

C2_Witness ==
    /\ AfterEdit
    /\ IndentLen(ArgLine) >= 1
    /\ argCursor.pos > IndentLen(ArgLine)
    /\ caret = argCursor.pos - IndentLen(ArgLine)
    /\ ArgLine[Len(ArgLine)] = NBSP
    /\ scratch # <<>>

\* C3: while the dialog lives after an edit(), its reject slot is connected
\* once to the closed signal of the host document edited last and to no
\* other; closing a document while the dialog is Editing rejects the dialog
\* exactly when that document is the tracked one.
C3_TracksLastDocument ==
    [][/\ state' \in {"Editing", "Accepted", "Rejected"}
            => conn' = OnlyTracked(_document')
       /\ \A d \in Docs :
            (host[d].open /\ ~host'[d].open /\ state = "Editing")
            => (state' = "Rejected" <=> d = _document)
      ]_vars

C3_Witness ==
    /\ lastOp.name = "close"
    /\ lastOp.from = "Editing"
    /\ lastOp.arg \in edited
    /\ lastOp.arg # _document
    /\ state = "Editing"
    /\ conn = OnlyTracked(_document)

\* C4: when the dialog is accepted with the scratch text as edit() loaded it
\* and the host document as it was at edit(), save() leaves every line of
\* the host document the same up to its leading indentation, and leaves the
\* other documents alone.
C4_RoundTrip ==
    [][(/\ lastOp'.name = "accept"
        /\ scratch = atEdit.scratch
        /\ TrackedLines = atEdit.lines)
       => /\ Strip(host'[_document].lines) = Strip(TrackedLines)
          /\ \A d \in Docs \ {_document} : host'[d] = host[d]
      ]_vars

C4_Witness ==
    /\ lastOp.name = "accept"
    /\ nKeys = 0
    /\ scratch = atEdit.scratch
    /\ scratch # <<>>
    /\ TrackedLines # atEdit.lines
    /\ Strip(TrackedLines) = Strip(atEdit.lines)

\* C5 as stated: a single undo after an accepted edit restores the host
\* document's content from immediately before save().
C5_Original ==
    [][lastOp'.name = "accept"
       => undo(host'[_document]).lines = TrackedLines]_vars

\* C5 amended: save() adds at most one undo group to the host document; when
\* it adds one, a single undo restores the content from immediately before
\* save(); when it adds none, it has changed nothing.
C5_OneUndoGroup ==
    [][lastOp'.name = "accept"
       => \/ /\ host'[_document].undo = <<TrackedLines>> \o host[_document].undo
             /\ undo(host'[_document]).lines = TrackedLines
          \/ /\ host'[_document].undo = host[_document].undo
             /\ host'[_document].lines = TrackedLines
      ]_vars

C5_Witness ==
    /\ lastOp.name = "accept"
    /\ scratch # atEdit.scratch
    /\ Len(host[_document].undo) = 2
    /\ TrackedLines # Head(host[_document].undo)
    /\ Len(TrackedLines) > Len(Head(host[_document].undo))

\* C6: the entry function called without a position completes without an
\* error and shows the dialog, the edit session started.
C6_DefaultPosition ==
    (lastOp.name = "entry" /\ lastOp.pos = NoPosition)
    => (err = "" /\ shown /\ state = "Editing")

\* C7 as stated: in every state the message has the 1-based line number of
\* the tracked range, the host document's name, and the definition or the
\* unknown placeholder.
C7_Original ==
    /\ message.kind = "Editing line"
    /\ message.linenum = _range.block + 1
    /\ message.document = documentName(_document)
    /\ message.variable \in {"a", "<unknown>"}

\* C7 amended: before the first edit() the message is the no-document
\* placeholder; when edit() returns, the message has the 1-based line number
\* the tracked range has then, the host document's name, and the definition
\* found for that line or the unknown placeholder.
C7_MessageAtEdit ==
    /\ ~Tracked => message = NoDocumentMessage
    /\ AfterEdit =>
          /\ message.kind = "Editing line"
          /\ message.linenum = _range.block + 1
          /\ message.document = documentName(_document)
          /\ message.variable =
                IF get_definition(TrackedLines[_range.block + 1]) # ""
                THEN get_definition(TrackedLines[_range.block + 1])
                ELSE "<unknown>"

C7_Witness ==
    /\ lastOp.name = "edit"
    /\ _range.block = 1
    /\ message.linenum = 2
    /\ message.variable = "<unknown>"

\* C8 as stated: after any key events the scratch document holds no line or
\* paragraph break.
C8_Original ==
    \A i \in 1..Len(scratch) : scratch[i] \notin {NL, LSEP}

\* C8 amended: the line separator key changes neither the scratch text nor
\* the caret (the Return key still starts a new line).
C8_LineSeparatorIgnored ==
    [][(lastOp'.name = "key" /\ lastOp'.arg = "InsertLineSeparator")
       => (scratch' = scratch /\ caret' = caret)]_vars

C8_Witness ==
    /\ lastOp.name = "key"
    /\ lastOp.arg = "InsertLineSeparator"
    /\ scratch # <<>>
    /\ caret > 0

\* C9: popup(position) keeps the dialog's width and height, centres it
\* horizontally on position.x, puts its top at position.y + 60 when
\* position.y <= height + 60 and its bottom at position.y - 60 otherwise,
\* and shows the dialog.
C9_Popup ==
    [][(lastOp'.name \in {"popup", "entry"} /\ lastOp'.pos # NoPosition)
       => LET p == lastOp'.pos[1]
          IN /\ width(geom') = width(geom)
             /\ height(geom') = height(geom)
             /\ 2 * p.x - (geom'.x1 + geom'.x2) \in {-1, 0, 1}
             /\ p.y <= height(geom) + PopupOffset => geom'.y1 = p.y + PopupOffset
             /\ p.y > height(geom) + PopupOffset => geom'.y2 = p.y - PopupOffset
             /\ shown'
      ]_vars

C9_Witness ==
    /\ lastOp.name = "popup"
    /\ lastOp.pos # NoPosition
    /\ lastOp.pos[1].y > height(geom) + PopupOffset
    /\ geom.y2 = lastOp.pos[1].y - PopupOffset
    /\ height(geom) > 1
    /\ shown

\* C10: a step of the dialog changes a host document's content only when it
\* is the acceptance of the Editing dialog, and then only the tracked
\* document; edit() leaves the caller's cursor as it was passed.
C10_OnlySaveMutates ==
    [][/\ \A d \in Docs :
            (host'[d].lines # host[d].lines \/ host'[d].undo # host[d].undo)
            => \/ lastOp'.name \in {"hostInsertLine", "hostUndo"}
               \/ /\ lastOp'.name = "accept"
                  /\ state = "Editing"
                  /\ state' = "Accepted"
                  /\ d = _document
       /\ lastOp'.name \in {"edit", "entry"} => callerCursor' = argCursor'
      ]_vars

C10_Witness ==
    /\ lastOp.name = "reject"
    /\ lastOp.from = "Editing"
    /\ scratch # atEdit.scratch
    /\ TrackedLines = atEdit.lines
    /\ argCursor.anchor # argCursor.pos

====
